---- MODULE Spec2Model ----
(***************************************************************************)
(* The whitespace interpreter of src/whitespace/whitespace.py: the         *)
(* instruction catalog, the decoders consume_any / consume_number /        *)
(* consume_label, the Program built by parse, and the fetch-execute loop   *)
(* of run.  Program text is a sequence over the symbols "s", "t", "n"      *)
(* (space, tab, linefeed); positions are 0-based as in the source.         *)
(***************************************************************************)
EXTENDS Integers, Sequences, FiniteSets, TLC

VARIABLES
    code,        \* the cleaned program text handed to parse / the decoders
    pos,         \* parse: decode position; decoder calls: the offset argument
    commands,    \* Program.commands
    labels,      \* Program.labels
    pc,          \* Program.pc
    call_stack,  \* Program.call_stack
    stack,       \* run: operand stack
    heap,        \* run: heap
    inp,         \* the unread rest of the input stream (character codes)
    output,      \* what has been written to the output stream (character codes)
    phase,       \* "parse", "run", "done", "fault"; "decode" for a decoder call
    err,         \* the message of the exception that ended the execution
    decoded,     \* history: every Command handed to add_command, in order
    steps,       \* history: number of commands run has fetched
    choices,     \* decoder calls: the choices argument of consume_any
    ret_val,     \* the result of the call: of execute, or of a decoder
    listing,     \* the listing the program text was assembled from, if any
    prev,        \* history: the machine state before the last iteration of run
    trace,       \* history: the program counters run has fetched at, in order
    text,        \* calls of clean: the raw program text
    runs,        \* history: number of calls of run on the Program
    args         \* execute: the arguments inp and is_cleaned, as the caller gave them

vars == <<code, pos, commands, labels, pc, call_stack, stack, heap, inp,
          output, phase, err, decoded, steps, choices, ret_val, listing,
          prev, trace, text, runs, args>>

----------------------------------------------------------------------------
(* Bounds of the model *)

MaxLen == 5        \* longest raw symbol sequence enumerated
MaxCmds == 2       \* longest program assembled from the command menu
MaxDecoded == 12   \* decode iterations followed in one parse
MaxSteps == 14     \* commands fetched in one run
MaxNum == 17       \* largest magnitude whose number text is decoded
MaxText == 4       \* longest raw text given to clean
MaxRuns == 2       \* calls of run on one Program

----------------------------------------------------------------------------
(* Python built-ins as the source uses them *)

Symbols == {"s", "t", "n"}

MinOf(S) == CHOOSE x \in S : \A y \in S : x <= y
MaxOf(S) == CHOOSE x \in S : \A y \in S : x >= y

\* an index of a slice: negative counts from the end, then clamped to 0..n
slice_index(i, n) == IF i < 0 THEN (IF i + n < 0 THEN 0 ELSE i + n)
                     ELSE (IF i > n THEN n ELSE i)

\* s[lo:hi]
slice(s, lo, hi) ==
    LET a == slice_index(lo, Len(s))
        b == slice_index(hi, Len(s))
    IN  IF a >= b THEN <<>> ELSE SubSeq(s, a + 1, b)

\* s.find(ch, offset) for offset >= 0: the first index >= offset, or -1
find(s, ch, offset) ==
    LET hits == {i \in offset..(Len(s) - 1) : s[i + 1] = ch}
    IN  IF hits = {} THEN -1 ELSE MinOf(hits)

\* the outcome of a call: a returned pair, or the exception raised
Ok(v, p) == [ok |-> TRUE, val |-> <<v>>, pos |-> p, err |-> ""]
Fail(e) == [ok |-> FALSE, val |-> <<>>, pos |-> -1, err |-> e]

None == <<>>
Some(x) == <<x>>

\* the empty dict
EmptyDict == [k \in {} |-> 0]

----------------------------------------------------------------------------
(* The instruction catalog *)

\* the IMP codes with heap given a code that starts arithmetic codes
IMP_heap_overlapping ==
    [stack |-> <<"s">>, arithmetic |-> <<"t", "s">>, heap |-> <<"t">>,
     io |-> <<"t", "n">>, flow |-> <<"n">>]

IMP == [stack |-> <<"s">>, arithmetic |-> <<"t", "s">>, heap |-> <<"t", "t">>,
        io |-> <<"t", "n">>, flow |-> <<"n">>]

\* name, IMP, code, the suffixes after '_'
InstructionMembers == <<
    <<"push", "stack", <<"s">>, {"n"}>>,
    <<"dup_n", "stack", <<"t", "s">>, {"n"}>>,
    <<"discard_n", "stack", <<"t", "n">>, {"n"}>>,
    <<"dup", "stack", <<"n", "s">>, {}>>,
    <<"swap", "stack", <<"n", "t">>, {}>>,
    <<"discard", "stack", <<"n", "n">>, {}>>,
    <<"add", "arithmetic", <<"s", "s">>, {}>>,
    <<"sub", "arithmetic", <<"s", "t">>, {}>>,
    <<"mul", "arithmetic", <<"s", "n">>, {}>>,
    <<"div", "arithmetic", <<"t", "s">>, {}>>,
    <<"mod", "arithmetic", <<"t", "t">>, {}>>,
    <<"store", "heap", <<"s">>, {}>>,
    <<"get", "heap", <<"t">>, {}>>,
    <<"out_c", "io", <<"s", "s">>, {}>>,
    <<"out_n", "io", <<"s", "t">>, {}>>,
    <<"in_c", "io", <<"t", "s">>, {}>>,
    <<"in_n", "io", <<"t", "t">>, {}>>,
    <<"mark", "flow", <<"s", "s">>, {"l"}>>,
    <<"call", "flow", <<"s", "t">>, {"l"}>>,
    <<"jump", "flow", <<"s", "n">>, {"l"}>>,
    <<"jz", "flow", <<"t", "s">>, {"l"}>>,
    <<"jlz", "flow", <<"t", "t">>, {"l"}>>,
    <<"ret", "flow", <<"t", "n">>, {}>>,
    <<"exit", "flow", <<"n", "n">>, {}>> >>

InstructionNames == {InstructionMembers[i][1] : i \in DOMAIN InstructionMembers}

\* Instruction.__new__: the attributes of the member called name
Instruction(name) ==
    LET m == InstructionMembers[CHOOSE i \in DOMAIN InstructionMembers :
                                    InstructionMembers[i][1] = name]
    IN  [name |-> name,
         imp |-> m[2],
         code |-> m[3],
         value |-> IMP[m[2]] \o m[3],
         takes_number |-> "n" \in m[4],
         takes_label |-> "l" \in m[4]]

\* [ins.value for ins in Instruction]
InstructionValues == {Instruction(n).value : n \in InstructionNames}

\* Instruction(value): the member with that value
InstructionOf(value) ==
    Instruction(CHOOSE n \in InstructionNames : Instruction(n).value = value)

\* Command.__init__
Command(ins, number, label) ==
    [ins |-> ins.name, imp |-> ins.imp, number |-> number, label |-> label]

----------------------------------------------------------------------------
(* The decoders *)

\* the loop of consume_any, from prefix length p on
RECURSIVE consume_any_scan(_, _, _, _, _)
consume_any_scan(code_part, chs, offset, p, max_len) ==
    IF p > max_len THEN Fail("no match found")
    ELSE IF slice(code_part, 0, p) \in chs
         THEN Ok(slice(code_part, 0, p), offset + p)
         ELSE consume_any_scan(code_part, chs, offset, p + 1, max_len)

\* consume_any preferring the longest match
consume_any_longest(c, chs, offset) ==
    LET part == slice(c, offset, Len(c))
        hits == {p \in 0..Len(part) : slice(part, 0, p) \in chs}
    IN  IF Len(c) <= offset THEN Fail("tried to consume from empty string")
        ELSE IF hits = {} THEN Fail("no match found")
        ELSE Ok(slice(part, 0, MaxOf(hits)), offset + MaxOf(hits))

\* consume_any reporting the end of the text as a failed match
consume_any_one_error(c, chs, offset) ==
    IF Len(c) <= offset THEN Fail("no match found")
    ELSE consume_any_scan(slice(c, offset, Len(c)), chs, offset, 0,
                          MaxOf({Len(x) : x \in chs}))

consume_any(c, chs, offset) ==
    IF Len(c) <= offset THEN Fail("tried to consume from empty string")
    ELSE consume_any_scan(slice(c, offset, Len(c)), chs, offset, 0,
                          MaxOf({Len(x) : x \in chs}))

\* int_base2 reading the least significant bit first
RECURSIVE int_base2_lsb_first(_)
int_base2_lsb_first(bits) ==
    IF bits = <<>> THEN 0
    ELSE 2 * int_base2_lsb_first(Tail(bits)) + (IF bits[1] = "t" THEN 1 ELSE 0)

\* int(bits, 2) of a string over '0' = "s", '1' = "t"
RECURSIVE int_base2(_)
int_base2(bits) ==
    IF bits = <<>> THEN 0
    ELSE 2 * int_base2(SubSeq(bits, 1, Len(bits) - 1))
         + (IF bits[Len(bits)] = "t" THEN 1 ELSE 0)

consume_number(c, offset) ==
    LET terminal == find(c, "n", offset)
        bits == slice(c, offset + 1, terminal)
    IN  IF terminal = offset THEN Fail("empty number (only terminal, no sign)")
        ELSE IF terminal = offset + 1 THEN Ok(0, terminal + 1)
        ELSE IF offset >= Len(c) THEN Fail("IndexError: string index out of range")
        ELSE IF c[offset + 1] \notin {"t", "s"} THEN Fail("KeyError")
        ELSE IF bits = <<>> THEN Fail("invalid literal for int() with base 2")
        ELSE Ok((IF c[offset + 1] = "t" THEN -1 ELSE 1) * int_base2(bits),
                terminal + 1)

\* consume_label keeping the terminal in the label
consume_label_with_terminal(c, offset) ==
    LET terminal == find(c, "n", offset)
    IN  Ok(slice(c, offset, terminal + 1), terminal + 1)

consume_label(c, offset) ==
    LET terminal == find(c, "n", offset)
    IN  Ok(slice(c, offset, terminal), terminal + 1)

----------------------------------------------------------------------------
(* Program *)

IsMark(cmd) == cmd.ins = "mark"

\* add_command binding a label to the index of the last command added
add_command_label_before(cmds, lbls, cmd) ==
    IF IsMark(cmd)
    THEN IF cmd.label[1] \in DOMAIN lbls
         THEN [ok |-> FALSE, commands |-> cmds, labels |-> lbls,
               err |-> "tried to redefine label"]
         ELSE [ok |-> TRUE, commands |-> cmds,
               labels |-> (cmd.label[1] :> Len(cmds) - 1) @@ lbls, err |-> ""]
    ELSE [ok |-> TRUE, commands |-> Append(cmds, cmd), labels |-> lbls,
          err |-> ""]

\* add_command without the check for a defined label: the last definition wins
add_command_redefining(cmds, lbls, cmd) ==
    IF IsMark(cmd)
    THEN [ok |-> TRUE, commands |-> cmds,
          labels |-> (cmd.label[1] :> Len(cmds)) @@ lbls, err |-> ""]
    ELSE [ok |-> TRUE, commands |-> Append(cmds, cmd), labels |-> lbls,
          err |-> ""]

\* Program.add_command on the Program (cmds, lbls)
\* add_command that defines the label and keeps the mark among the commands
add_command_keeping_marks(cmds, lbls, cmd) ==
    IF IsMark(cmd) /\ cmd.label[1] \in DOMAIN lbls
    THEN [ok |-> FALSE, commands |-> cmds, labels |-> lbls,
          err |-> "tried to redefine label"]
    ELSE [ok |-> TRUE, commands |-> Append(cmds, cmd),
          labels |-> IF IsMark(cmd) THEN (cmd.label[1] :> Len(cmds)) @@ lbls
                     ELSE lbls,
          err |-> ""]

add_command(cmds, lbls, cmd) ==
    IF IsMark(cmd)
    THEN IF cmd.label[1] \in DOMAIN lbls
         THEN [ok |-> FALSE, commands |-> cmds, labels |-> lbls,
               err |-> "tried to redefine label"]
         ELSE [ok |-> TRUE, commands |-> cmds,
               labels |-> (cmd.label[1] :> Len(cmds)) @@ lbls, err |-> ""]
    ELSE [ok |-> TRUE, commands |-> Append(cmds, cmd), labels |-> lbls,
          err |-> ""]

\* one iteration of the loop of parse up to the Command: the instruction at
\* position p of c and its operand
decode_command(c, p) ==
    LET i == consume_any(c, InstructionValues, p)
        ins == InstructionOf(i.val[1])
        num == consume_number(c, i.pos)
        lbl == consume_label(c, i.pos)
    IN  IF ~i.ok THEN Fail(i.err)
        ELSE IF ins.takes_number
             THEN IF num.ok THEN Ok(Command(ins, Some(num.val[1]), None), num.pos)
                  ELSE Fail(num.err)
        ELSE IF ins.takes_label
             THEN IF lbl.ok THEN Ok(Command(ins, None, Some(lbl.val[1])), lbl.pos)
                  ELSE Fail(lbl.err)
        ELSE Ok(Command(ins, None, None), i.pos)

----------------------------------------------------------------------------
(* The program texts and input streams explored *)

\* all sequences over S of length at most n
RECURSIVE SeqsUpTo(_, _)
SeqsUpTo(S, n) ==
    IF n = 0 THEN {<<>>}
    ELSE LET shorter == SeqsUpTo(S, n - 1)
         IN  shorter \cup {Append(q, x) : q \in {r \in shorter : Len(r) = n - 1}, x \in S}

RawTexts == SeqsUpTo(Symbols, MaxLen)

\* the binary digits of n >= 0, most significant first, 0 as "s" and 1 as "t"
RECURSIVE BinaryDigits(_)
BinaryDigits(n) ==
    IF n < 2 THEN <<(IF n = 1 THEN "t" ELSE "s")>>
    ELSE Append(BinaryDigits(n \div 2), (IF n % 2 = 1 THEN "t" ELSE "s"))

\* the text of a number: sign, binary digits, linefeed
NumberText(n) ==
    IF n < 0 THEN <<"t">> \o BinaryDigits(-n) \o <<"n">>
    ELSE <<"s">> \o BinaryDigits(n) \o <<"n">>

\* the text of one command of a listing
CommandText(cmd) ==
    Instruction(cmd.ins).value
    \o (IF cmd.number # None THEN NumberText(cmd.number[1]) ELSE <<>>)
    \o (IF cmd.label # None THEN cmd.label[1] \o <<"n">> ELSE <<>>)

RECURSIVE Assemble(_)
Assemble(lst) ==
    IF lst = <<>> THEN <<>>
    ELSE CommandText(Head(lst)) \o Assemble(Tail(lst))

MenuNumbers == {-1, 0, 2}
MenuLabels == {<<>>}

Cmd(name) == Command(Instruction(name), None, None)
CmdN(name, n) == Command(Instruction(name), Some(n), None)
CmdL(name, l) == Command(Instruction(name), None, Some(l))

CmdMenu ==
    {Cmd(n) : n \in {m \in InstructionNames :
                        ~Instruction(m).takes_number /\ ~Instruction(m).takes_label}}
    \cup {CmdN(n, k) : n \in {m \in InstructionNames : Instruction(m).takes_number},
                       k \in MenuNumbers}
    \cup {CmdL(n, l) : n \in {m \in InstructionNames : Instruction(m).takes_label},
                       l \in MenuLabels}

MenuListings == SeqsUpTo(CmdMenu, MaxCmds)

\* the input streams: empty, "7\n", "-3\nA", "x\n"
DefaultStream == <<55, 10>>
InputStreams == {<<>>, DefaultStream, <<45, 51, 10, 65>>, <<120, 10>>}

\* listings of the situations the menu listings are too short for
ArithNumbers == -3..3
ArithNames == {"add", "sub", "mul", "div", "mod"}
ArithListings ==
    {<<CmdN("push", b), CmdN("push", a), Cmd(op), Cmd("out_n"), Cmd("exit")>> :
        b \in ArithNumbers, a \in ArithNumbers, op \in ArithNames}

L0 == <<>>
L1 == <<"s">>
L2 == <<"t", "s">>

FlowListings == {
    \* forward jump over a command, the label defined after the jump
    <<CmdL("jump", L1), CmdN("push", 1), CmdL("mark", L1), CmdN("push", 2),
      Cmd("out_n"), Cmd("exit")>>,
    \* backward jump: a loop counting down to zero
    <<CmdN("push", 2), CmdL("mark", L1), CmdN("push", 1), Cmd("sub"), Cmd("dup"),
      CmdL("jz", L2), CmdL("jump", L1), CmdL("mark", L2), Cmd("out_n"), Cmd("exit")>>,
    \* a loop that never exits
    <<CmdN("push", 1), CmdL("mark", L0), Cmd("dup"), Cmd("out_n"), CmdL("jump", L0)>>,
    \* nested calls
    <<CmdL("call", L1), Cmd("out_n"), Cmd("exit"), CmdL("mark", L1), CmdL("call", L2),
      Cmd("ret"), CmdL("mark", L2), CmdN("push", 3), Cmd("ret")>>,
    \* a label defined after the last command
    <<CmdN("push", 0), CmdL("jz", L1), Cmd("exit"), CmdL("mark", L1)>>,
    \* heap
    <<CmdN("push", 5), CmdN("push", 42), Cmd("store"), CmdN("push", 5), Cmd("get"),
      Cmd("out_n"), Cmd("exit")>>,
    <<CmdN("push", -3), CmdN("push", 7), Cmd("store"), CmdN("push", -3), Cmd("get"),
      Cmd("out_n"), Cmd("exit")>>,
    \* a label defined twice after commands with effects
    <<CmdN("push", 2), Cmd("out_n"), CmdL("mark", L1), Cmd("in_c"), CmdL("mark", L1),
      Cmd("exit")>>,
    <<CmdL("mark", L2), CmdN("push", 2), CmdL("mark", L1), CmdL("mark", L0),
      CmdL("mark", L2)>> }

\* conditional jumps, taken or not, to a defined or to an undefined label
CondListings ==
    {<<CmdN("push", 1), Cmd("out_n"), CmdN("push", v), CmdL(j, l), CmdN("push", 2),
       Cmd("out_n"), CmdL("mark", L1), CmdN("push", 3), Cmd("out_n"), Cmd("exit")>> :
        v \in {-1, 0, 1}, j \in {"jz", "jlz", "jump", "call"}, l \in {L1, L2}}

\* programs that read the input stream
InputListings == {
    <<CmdN("push", 0), Cmd("in_c"), CmdN("push", 0), Cmd("get"), Cmd("out_c"),
      Cmd("exit")>>,
    <<CmdN("push", 1), Cmd("in_n"), CmdN("push", 1), Cmd("get"), Cmd("out_n"),
      CmdN("push", 2), Cmd("in_c"), Cmd("exit")>> }

\* every menu command, and dup_n and discard_n with more operands, on operand
\* stacks of depth 0 to 3
Pushes(d) == SubSeq(<<CmdN("push", 4), CmdN("push", 5), CmdN("push", 6)>>, 1, d)
StackDepths == 0..3
StackOpNumbers == -2..4
StackListings ==
    {Pushes(d) \o <<c>> :
        d \in StackDepths,
        c \in CmdMenu \cup {CmdN(op, n) : op \in {"dup_n", "discard_n"},
                                          n \in StackOpNumbers}}

L3 == <<"t">>

CallListings == {
    \* calls nested three deep
    <<CmdL("call", L1), Cmd("exit"), CmdL("mark", L1), CmdL("call", L2), Cmd("ret"),
      CmdL("mark", L2), CmdL("call", L3), Cmd("ret"), CmdL("mark", L3), Cmd("ret")>>,
    \* a ret after the only call has returned
    <<CmdL("call", L1), Cmd("ret"), CmdL("mark", L1), Cmd("ret")>> }

HeapScenario ==
    <<CmdN("push", 5), CmdN("push", 42), Cmd("store"), CmdN("push", 5), Cmd("get"),
      Cmd("out_n"), Cmd("exit")>>
HeapTwiceScenario ==
    <<CmdN("push", 5), CmdN("push", 1), Cmd("store"), CmdN("push", 5), CmdN("push", 42),
      Cmd("store"), CmdN("push", 5), Cmd("get"), Cmd("out_n"), Cmd("exit")>>
HeapNegativeScenario ==
    <<CmdN("push", -3), CmdN("push", 7), Cmd("store"), CmdN("push", -3), Cmd("get"),
      Cmd("out_n"), Cmd("exit")>>
HeapUnwrittenScenario ==
    <<CmdN("push", 5), CmdN("push", 42), Cmd("store"), CmdN("push", 6), Cmd("get"),
      Cmd("out_n"), Cmd("exit")>>
HeapTwoCellsScenario ==
    <<CmdN("push", 5), CmdN("push", 1), Cmd("store"), CmdN("push", 6), CmdN("push", 2),
      Cmd("store"), CmdN("push", 5), Cmd("get"), Cmd("out_n"), Cmd("exit")>>

HeapListings ==
    {HeapScenario, HeapTwiceScenario, HeapNegativeScenario, HeapUnwrittenScenario,
     HeapTwoCellsScenario}

\* push x, dup, sub for the literals x
LiteralNumbers == ArithNumbers \cup {-MaxNum, MaxNum}
DupSubListing(x) == <<CmdN("push", x), Cmd("dup"), Cmd("sub")>>
DupSubListings == {DupSubListing(x) : x \in LiteralNumbers}

Listings ==
    MenuListings \cup ArithListings \cup FlowListings \cup CondListings
    \cup InputListings \cup StackListings \cup CallListings \cup HeapListings
    \cup DupSubListings

\* the streams a listing is run on: all of them if it reads input
StreamsFor(src) ==
    IF src.listing # None
       /\ \E i \in DOMAIN src.listing[1] : src.listing[1][i].ins \in {"in_c", "in_n"}
    THEN InputStreams
    ELSE {DefaultStream}

ProgramSources ==
    {[listing |-> None, code |-> t] : t \in RawTexts}
    \cup {[listing |-> Some(l), code |-> Assemble(l)] : l \in Listings}

\* execute(code, inp, True) with a string as the input: the call the other
\* specifications start in the middle of
ParsedArgs == [inp |-> "str", is_cleaned |-> TRUE]

\* what the caller passes as inp: nothing (the default None), a string, or
\* a text stream; and whether it says the text is cleaned
Arguments == [inp : {"None", "str", "TextIO"}, is_cleaned : BOOLEAN]

NoCall == [fn |-> "", ok |-> FALSE, val |-> <<>>, pos |-> -1, err |-> ""]
Called(fn, r) == [fn |-> fn, ok |-> r.ok, val |-> r.val, pos |-> r.pos, err |-> r.err]

\* execute: what its caller has received when the execution is in phase ph;
\* the output buffer is returned after run has returned, an exception of
\* parse or run leaves execute
execute_return(ph, e, out) ==
    IF ph = "done" THEN Called("execute", Ok(out, 0))
    ELSE IF ph = "fault" THEN Called("execute", Fail(e))
    ELSE ret_val

\* the machine state, as the history keeps it
Snapshot ==
    [phase |-> phase, pc |-> pc, call_stack |-> call_stack, stack |-> stack,
     heap |-> heap, inp |-> inp, output |-> output]

----------------------------------------------------------------------------
(* execute: parse, then run *)

\* Program.__init__ and the locals of parse; the stream of execute
Init ==
    /\ \E src \in ProgramSources :
          /\ listing = src.listing
          /\ code = src.code
          /\ inp \in StreamsFor(src)
    /\ pos = 0
    /\ commands = <<>>
    /\ labels = EmptyDict
    /\ pc = 0
    /\ call_stack = <<>>
    /\ stack = <<>>
    /\ heap = EmptyDict
    /\ output = <<>>
    /\ phase = "parse"
    /\ err = ""
    /\ decoded = <<>>
    /\ steps = 0
    /\ choices = {}
    /\ ret_val = NoCall
    /\ prev = Snapshot
    /\ trace = <<>>
    /\ text = <<>>
    /\ runs = 0
    /\ args = ParsedArgs

\* one iteration of the loop of parse
parse_iteration ==
    /\ phase = "parse"
    /\ pos < Len(code)
    /\ Len(decoded) < MaxDecoded
    /\ LET d == decode_command(code, pos)
           a == add_command(commands, labels, d.val[1])
       IN  IF ~d.ok
           THEN /\ phase' = "fault"
                /\ err' = d.err
                /\ UNCHANGED <<pos, commands, labels, decoded>>
           ELSE /\ decoded' = Append(decoded, [cmd |-> d.val[1], from |-> pos, to |-> d.pos])
                /\ commands' = a.commands
                /\ labels' = a.labels
                /\ IF a.ok
                   THEN /\ pos' = d.pos
                        /\ UNCHANGED <<phase, err>>
                   ELSE /\ phase' = "fault"
                        /\ err' = a.err
                        /\ UNCHANGED pos
    /\ ret_val' = execute_return(phase', err', output)
    /\ UNCHANGED <<code, pc, call_stack, stack, heap, inp, output, steps,
                   choices, listing, prev, trace, text, runs, args>>

\* the loop of parse ends, parse returns the Program and run sets its locals
parse_return ==
    /\ phase = "parse"
    /\ pos >= Len(code)
    /\ phase' = "run"
    /\ stack' = <<>>
    /\ heap' = EmptyDict
    /\ UNCHANGED <<code, pos, commands, labels, pc, call_stack, inp, output,
                   err, decoded, steps, choices, ret_val, listing, prev, trace,
                   text, args>>
    /\ runs' = 1

----------------------------------------------------------------------------
(* Python arithmetic and text conversions used by run *)

\* division rounding towards zero
truncdiv(b, a) ==
    (IF (b < 0) = (a < 0) THEN 1 ELSE -1)
    * ((IF b < 0 THEN -b ELSE b) \div (IF a < 0 THEN -a ELSE a))

\* b // a for a # 0: the quotient rounded towards minus infinity
floordiv(b, a) == IF a > 0 THEN b \div a ELSE (-b) \div (-a)

\* b % a for a # 0: the remainder, with the sign of a
pymod(b, a) == IF a > 0 THEN b % a ELSE -((-b) % (-a))

\* the decimal digits of n >= 0 as character codes
RECURSIVE digits(_)
digits(n) == IF n < 10 THEN <<48 + n>> ELSE Append(digits(n \div 10), 48 + (n % 10))

\* str(v)
str(v) == IF v < 0 THEN <<45>> \o digits(-v) ELSE digits(v)

\* chr(v) raises ValueError outside range(0x110000)
chr_ok(v) == 0 <= v /\ v < 1114112

\* inp.readline(): up to and including the first linefeed, or all that is left
readline(s) ==
    LET nl == {i \in 1..Len(s) : s[i] = 10}
    IN  IF nl = {} THEN s ELSE SubSeq(s, 1, MinOf(nl))

Whitespace == {9, 10, 13, 32}

RECURSIVE strip(_)
strip(s) ==
    IF s = <<>> THEN s
    ELSE IF s[1] \in Whitespace THEN strip(Tail(s))
    ELSE IF s[Len(s)] \in Whitespace THEN strip(SubSeq(s, 1, Len(s) - 1))
    ELSE s

RECURSIVE int_base10(_)
int_base10(ds) ==
    IF ds = <<>> THEN 0
    ELSE 10 * int_base10(SubSeq(ds, 1, Len(ds) - 1)) + (ds[Len(ds)] - 48)

\* int(a) of a line of sign and decimal digits, surrounding whitespace ignored
int(a) ==
    LET t == strip(a)
        signed == t # <<>> /\ t[1] \in {43, 45}
        ds == IF signed THEN Tail(t) ELSE t
    IN  IF ds = <<>> \/ \E i \in 1..Len(ds) : ds[i] \notin 48..57
        THEN Fail("invalid literal for int() with base 10")
        ELSE Ok((IF signed /\ t[1] = 45 THEN -1 ELSE 1) * int_base10(ds), 0)

----------------------------------------------------------------------------
(* run *)

\* Program.get_command succeeds and returns a command of instruction name
Fetched(name) ==
    /\ phase = "run"
    /\ steps < MaxSteps
    /\ pc < Len(commands)
    /\ commands[pc + 1].ins = name

cmd == commands[pc + 1]

top == stack[Len(stack)]
second == stack[Len(stack) - 1]
popped(k) == SubSeq(stack, 1, Len(stack) - k)

\* jump landing one command after the label
jump_past_label(p, lbl) ==
    IF lbl \notin DOMAIN labels
    THEN [ok |-> FALSE, pc |-> p, err |-> "tried to jump to nonexistent label"]
    ELSE [ok |-> TRUE, pc |-> labels[lbl] + 1, err |-> ""]

\* jump that carries on at the next command when the label is missing
jump_ignoring_missing(p, lbl) ==
    IF lbl \notin DOMAIN labels
    THEN [ok |-> TRUE, pc |-> p, err |-> ""]
    ELSE [ok |-> TRUE, pc |-> labels[lbl], err |-> ""]

\* Program.jump from program counter p: the new program counter or the error
jump(p, lbl) ==
    IF lbl \notin DOMAIN labels
    THEN [ok |-> FALSE, pc |-> p, err |-> "tried to jump to nonexistent label"]
    ELSE [ok |-> TRUE, pc |-> labels[lbl], err |-> ""]

\* an iteration that forgets the labels of the Program
Step_dropping_labels(ph, e, p, cs, st, hp, in, out) ==
    /\ phase' = ph
    /\ err' = e
    /\ pc' = p
    /\ call_stack' = cs
    /\ stack' = st
    /\ heap' = hp
    /\ inp' = in
    /\ output' = out
    /\ steps' = steps + 1
    /\ prev' = Snapshot
    /\ trace' = Append(trace, pc)
    /\ ret_val' = execute_return(ph, e, out)
    /\ labels' = EmptyDict
    /\ UNCHANGED <<code, pos, commands, decoded, choices, listing, text, runs, args>>

\* the state in which an iteration of the loop of run ends
Step(ph, e, p, cs, st, hp, in, out) ==
    /\ phase' = ph
    /\ err' = e
    /\ pc' = p
    /\ call_stack' = cs
    /\ stack' = st
    /\ heap' = hp
    /\ inp' = in
    /\ output' = out
    /\ steps' = steps + 1
    /\ prev' = Snapshot
    /\ trace' = Append(trace, pc)
    /\ ret_val' = execute_return(ph, e, out)
    /\ UNCHANGED <<code, pos, commands, labels, decoded, choices, listing, text, runs, args>>

\* the iteration ends with the exception e raised after Program.advance
Raise(e, cs, st, hp, in, out) == Step("fault", e, pc + 1, cs, st, hp, in, out)
\* the iteration ends normally with operand stack st
Continue(st) == Step("run", "", pc + 1, call_stack, st, heap, inp, output)
\* a pop from the empty stack that is not noticed
underflow_ignored(st) == Continue(st)
Underflow(st) == Raise("IndexError: pop from empty list", call_stack, st, heap, inp, output)

run_push ==
    /\ Fetched("push")
    /\ Continue(Append(stack, cmd.number[1]))

\* dup_n accepting an operand equal to the depth
run_dup_n_off_by_one ==
    /\ Fetched("dup_n")
    /\ LET n == cmd.number[1]
       IN  IF n > Len(stack) \/ stack = <<>>
           THEN Raise("tried to duplicate too far down the stack",
                      call_stack, stack, heap, inp, output)
           ELSE IF n < 0
           THEN Raise("IndexError: list index out of range",
                      call_stack, stack, heap, inp, output)
           ELSE Continue(Append(stack, stack[IF n = Len(stack) THEN 1 ELSE Len(stack) - n]))

run_dup_n ==
    /\ Fetched("dup_n")
    /\ LET n == cmd.number[1]
       IN  IF n >= Len(stack)
           THEN Raise("tried to duplicate too far down the stack",
                      call_stack, stack, heap, inp, output)
           ELSE IF n < 0
           THEN Raise("IndexError: list index out of range",
                      call_stack, stack, heap, inp, output)
           ELSE Continue(Append(stack, stack[Len(stack) - n]))

\* discard_n that clears the whole stack for a non-positive operand
run_discard_n_clearing ==
    /\ Fetched("discard_n")
    /\ LET n == cmd.number[1]
           a == slice_index(-n - 1, Len(stack))
           b == slice_index(-1, Len(stack))
       IN  IF n <= 0 THEN Continue(<<>>)
           ELSE IF a < b
           THEN Continue(SubSeq(stack, 1, a) \o SubSeq(stack, b + 1, Len(stack)))
           ELSE Continue(stack)

run_discard_n ==
    /\ Fetched("discard_n")
    /\ LET n == IF cmd.number[1] > 0 THEN cmd.number[1] ELSE Len(stack)
           a == slice_index(-n - 1, Len(stack))
           b == slice_index(-1, Len(stack))
       IN  IF a < b
           THEN Continue(SubSeq(stack, 1, a) \o SubSeq(stack, b + 1, Len(stack)))
           ELSE Continue(stack)

run_dup ==
    /\ Fetched("dup")
    /\ IF stack = <<>>
       THEN Raise("tried to dup empty stack", call_stack, stack, heap, inp, output)
       ELSE Continue(Append(stack, top))

run_swap ==
    /\ Fetched("swap")
    /\ IF Len(stack) < 2
       THEN Raise("tried to swap less than 2 elements",
                  call_stack, stack, heap, inp, output)
       ELSE Continue(popped(2) \o <<top, second>>)

run_discard ==
    /\ Fetched("discard")
    /\ IF stack = <<>>
       THEN Raise("tried to discard from empty stack",
                  call_stack, stack, heap, inp, output)
       ELSE Continue(popped(1))

\* sub computing the sum
arith_result_sub_as_add(name, b, a) ==
    CASE name = "add" -> b + a
      [] name = "sub" -> b + a
      [] name = "mul" -> b * a
      [] name = "div" -> floordiv(b, a)
      [] name = "mod" -> pymod(b, a)

\* the result an arithmetic instruction pushes for a = top, b = second
arith_result(name, b, a) ==
    CASE name = "add" -> b + a
      [] name = "sub" -> b - a
      [] name = "mul" -> b * a
      [] name = "div" -> floordiv(b, a)
      [] name = "mod" -> pymod(b, a)

\* division and modulo by zero giving 0
run_arithmetic_zero_quotient ==
    /\ \E name \in ArithNames : Fetched(name)
    /\ IF Len(stack) < 2
       THEN Underflow(<<>>)
       ELSE IF cmd.ins \in {"div", "mod"} /\ top = 0
       THEN Continue(Append(popped(2), 0))
       ELSE Continue(Append(popped(2), arith_result(cmd.ins, second, top)))

run_arithmetic ==
    /\ \E name \in ArithNames : Fetched(name)
    /\ IF Len(stack) < 2
       THEN Underflow(<<>>)
       ELSE IF cmd.ins \in {"div", "mod"} /\ top = 0
       THEN Raise("ZeroDivisionError", call_stack, popped(2), heap, inp, output)
       ELSE Continue(Append(popped(2), arith_result(cmd.ins, second, top)))

\* store taking the address from the top and the value from beneath it
run_store_swapped ==
    /\ Fetched("store")
    /\ IF Len(stack) < 2
       THEN Underflow(<<>>)
       ELSE Step("run", "", pc + 1, call_stack, popped(2),
                 (top :> second) @@ heap, inp, output)

\* store writing the value at the address and at the address after it
run_store_two_cells ==
    /\ Fetched("store")
    /\ IF Len(stack) < 2
       THEN Underflow(<<>>)
       ELSE Step("run", "", pc + 1, call_stack, popped(2),
                 (second :> top) @@ ((second + 1) :> top) @@ heap, inp, output)

run_store ==
    /\ Fetched("store")
    /\ IF Len(stack) < 2
       THEN Underflow(<<>>)
       ELSE Step("run", "", pc + 1, call_stack, popped(2),
                 (second :> top) @@ heap, inp, output)

\* get reading 0 at an address never written
run_get_default ==
    /\ Fetched("get")
    /\ IF stack = <<>>
       THEN Underflow(stack)
       ELSE IF top \notin DOMAIN heap
       THEN Continue(Append(popped(1), 0))
       ELSE Continue(Append(popped(1), heap[top]))

run_get ==
    /\ Fetched("get")
    /\ IF stack = <<>>
       THEN Underflow(stack)
       ELSE IF top \notin DOMAIN heap
       THEN Raise("bad heap address", call_stack, popped(1), heap, inp, output)
       ELSE Continue(Append(popped(1), heap[top]))

run_out_c ==
    /\ Fetched("out_c")
    /\ IF stack = <<>>
       THEN Underflow(stack)
       ELSE IF ~chr_ok(top)
       THEN Raise("ValueError: chr() arg not in range(0x110000)",
                  call_stack, popped(1), heap, inp, output)
       ELSE Step("run", "", pc + 1, call_stack, popped(1), heap, inp,
                 Append(output, top))

\* out_n writing the character with the code of the value
run_out_n_as_char ==
    /\ Fetched("out_n")
    /\ IF stack = <<>>
       THEN Underflow(stack)
       ELSE Step("run", "", pc + 1, call_stack, popped(1), heap, inp,
                 Append(output, top))

run_out_n ==
    /\ Fetched("out_n")
    /\ IF stack = <<>>
       THEN Underflow(stack)
       ELSE Step("run", "", pc + 1, call_stack, popped(1), heap, inp,
                 output \o str(top))

run_in_c ==
    /\ Fetched("in_c")
    /\ IF inp = <<>>
       THEN Raise("unexpected EOF on input", call_stack, stack, heap, inp, output)
       ELSE IF stack = <<>>
       THEN Raise("IndexError: pop from empty list",
                  call_stack, stack, heap, Tail(inp), output)
       ELSE Step("run", "", pc + 1, call_stack, popped(1),
                 (top :> Head(inp)) @@ heap, Tail(inp), output)

run_in_n ==
    /\ Fetched("in_n")
    /\ LET a == readline(inp)
           rest == SubSeq(inp, Len(a) + 1, Len(inp))
       IN  IF a = <<>>
           THEN Raise("unexpected EOF on input", call_stack, stack, heap, inp, output)
           ELSE IF stack = <<>>
           THEN Raise("IndexError: pop from empty list",
                      call_stack, stack, heap, rest, output)
           ELSE IF ~int(a).ok
           THEN Raise(int(a).err, call_stack, popped(1), heap, rest, output)
           ELSE Step("run", "", pc + 1, call_stack, popped(1),
                     (top :> int(a).val[1]) @@ heap, rest, output)

\* call saving the program counter of the call itself
run_call_saving_fetch_pc ==
    /\ Fetched("call")
    /\ LET j == jump(pc + 1, cmd.label[1])
       IN  Step(IF j.ok THEN "run" ELSE "fault", j.err, j.pc,
                Append(call_stack, pc), stack, heap, inp, output)

run_call ==
    /\ Fetched("call")
    /\ LET j == jump(pc + 1, cmd.label[1])
       IN  Step(IF j.ok THEN "run" ELSE "fault", j.err, j.pc,
                Append(call_stack, pc + 1), stack, heap, inp, output)

\* ret resuming at the oldest saved program counter
run_ret_fifo ==
    /\ Fetched("ret")
    /\ IF call_stack = <<>>
       THEN Raise("IndexError: pop from empty list",
                  call_stack, stack, heap, inp, output)
       ELSE Step("run", "", call_stack[1], Tail(call_stack), stack, heap, inp, output)

\* ret carrying on at the next command when no call is open
run_ret_empty_continues ==
    /\ Fetched("ret")
    /\ IF call_stack = <<>>
       THEN Continue(stack)
       ELSE Step("run", "", call_stack[Len(call_stack)],
                 SubSeq(call_stack, 1, Len(call_stack) - 1), stack, heap, inp, output)

run_ret ==
    /\ Fetched("ret")
    /\ IF call_stack = <<>>
       THEN Raise("IndexError: pop from empty list",
                  call_stack, stack, heap, inp, output)
       ELSE Step("run", "", call_stack[Len(call_stack)],
                 SubSeq(call_stack, 1, Len(call_stack) - 1), stack, heap, inp, output)

\* jump that goes forward only and carries on at a label behind it
run_jump_forward_only ==
    /\ Fetched("jump")
    /\ LET j == jump(pc + 1, cmd.label[1])
       IN  IF j.ok /\ j.pc <= pc
           THEN Continue(stack)
           ELSE Step(IF j.ok THEN "run" ELSE "fault", j.err, j.pc,
                     call_stack, stack, heap, inp, output)

run_jump ==
    /\ Fetched("jump")
    /\ LET j == jump(pc + 1, cmd.label[1])
       IN  Step(IF j.ok THEN "run" ELSE "fault", j.err, j.pc,
                call_stack, stack, heap, inp, output)

\* jz and jlz: pop, then jump if the condition holds for the popped value
cond_jump(taken) ==
    IF stack = <<>>
    THEN Underflow(stack)
    ELSE IF taken
    THEN LET j == jump(pc + 1, cmd.label[1])
         IN  Step(IF j.ok THEN "run" ELSE "fault", j.err, j.pc,
                  call_stack, popped(1), heap, inp, output)
    ELSE Continue(popped(1))

run_jz ==
    /\ Fetched("jz")
    /\ cond_jump(stack # <<>> /\ top = 0)

\* jlz jumping on zero too
run_jlz_nonpositive ==
    /\ Fetched("jlz")
    /\ cond_jump(stack # <<>> /\ top <= 0)

run_jlz ==
    /\ Fetched("jlz")
    /\ cond_jump(stack # <<>> /\ top < 0)

\* exit that carries on with the next command
run_exit_continuing ==
    /\ Fetched("exit")
    /\ Continue(stack)

run_exit ==
    /\ Fetched("exit")
    /\ Step("done", "", pc + 1, call_stack, stack, heap, inp, output)

\* Program.get_command raises at the end of the commands; a mark among the
\* commands raises after Program.advance
\* a run that returns when the program counter is past the last command
run_abort_returning ==
    /\ phase = "run"
    /\ steps < MaxSteps
    /\ IF pc >= Len(commands)
       THEN Step("done", "", pc, call_stack, stack, heap, inp, output)
       ELSE /\ commands[pc + 1].ins = "mark"
            /\ Raise("leftover mark", call_stack, stack, heap, inp, output)

run_abort ==
    /\ phase = "run"
    /\ steps < MaxSteps
    /\ IF pc >= Len(commands)
       THEN Step("fault", "unexpected end of program", pc, call_stack, stack,
                 heap, inp, output)
       ELSE /\ commands[pc + 1].ins = "mark"
            /\ Raise("leftover mark", call_stack, stack, heap, inp, output)

Next ==
    \/ parse_iteration
    \/ parse_return
    \/ run_push
    \/ run_dup_n
    \/ run_discard_n
    \/ run_dup
    \/ run_swap
    \/ run_discard
    \/ run_arithmetic
    \/ run_store
    \/ run_get
    \/ run_out_c
    \/ run_out_n
    \/ run_in_c
    \/ run_in_n
    \/ run_call
    \/ run_ret
    \/ run_jump
    \/ run_jz
    \/ run_jlz
    \/ run_exit
    \/ run_abort

Spec == Init /\ [][Next]_vars

----------------------------------------------------------------------------
(* Calls of the decoders on arbitrary text and offsets *)

\* the choices of the doctest of consume_any, over the symbols
ChoicePool == {<<"s">>, <<"s", "t">>, <<"t", "n", "s">>}
ChoiceSets == {InstructionValues} \cup (SUBSET ChoicePool \ {{}})

DecodeTexts ==
    RawTexts
    \cup {NumberText(n) : n \in (-MaxNum)..MaxNum}
    \cup {<<"s", "s">> \o NumberText(n) : n \in (-MaxNum)..MaxNum}

InitDecode ==
    /\ code \in DecodeTexts
    /\ pos \in 0..(Len(code) + 1)
    /\ phase = "decode"
    /\ choices = {}
    /\ ret_val = NoCall
    /\ listing = None
    /\ inp = DefaultStream
    /\ commands = <<>>
    /\ labels = EmptyDict
    /\ pc = 0
    /\ call_stack = <<>>
    /\ stack = <<>>
    /\ heap = EmptyDict
    /\ output = <<>>
    /\ err = ""
    /\ decoded = <<>>
    /\ steps = 0
    /\ prev = Snapshot
    /\ trace = <<>>
    /\ text = <<>>
    /\ runs = 0
    /\ args = ParsedArgs

DecodeFrame ==
    UNCHANGED <<code, pos, commands, labels, pc, call_stack, stack, heap, inp,
                output, phase, err, decoded, steps, listing, prev, trace, text,
                runs, args>>

call_consume_any ==
    /\ phase = "decode"
    /\ ret_val = NoCall
    /\ \E chs \in ChoiceSets :
          /\ choices' = chs
          /\ ret_val' = Called("consume_any", consume_any(code, chs, pos))
    /\ DecodeFrame

call_consume_number ==
    /\ phase = "decode"
    /\ ret_val = NoCall
    /\ ret_val' = Called("consume_number", consume_number(code, pos))
    /\ UNCHANGED choices
    /\ DecodeFrame

call_consume_label ==
    /\ phase = "decode"
    /\ ret_val = NoCall
    /\ ret_val' = Called("consume_label", consume_label(code, pos))
    /\ UNCHANGED choices
    /\ DecodeFrame

NextDecode ==
    \/ call_consume_any
    \/ call_consume_number
    \/ call_consume_label

SpecDecode == InitDecode /\ [][NextDecode]_vars

----------------------------------------------------------------------------
(* Properties of the decoders, under SpecDecode *)

\* the text from the offset on
Rest == SubSeq(code, pos + 1, Len(code))
\* the 1-based indices of Rest holding a linefeed
Linefeeds == {i \in 1..Len(Rest) : Rest[i] = "n"}
\* the symbols of Rest before its first linefeed
Run == SubSeq(Rest, 1, MinOf(Linefeeds) - 1)

IsPrefixOfRestAt(v, q) == q + Len(v) <= Len(code) /\ SubSeq(code, q + 1, q + Len(v)) = v
IsPrefixOfRest(v) == IsPrefixOfRestAt(v, pos)
MatchLengths == {k \in 0..Len(Rest) : SubSeq(Rest, 1, k) \in choices}

\* C4: consume_any returns the shortest prefix of code[offset:] that is one of
\* the choices, with the position offset + its length, and fails if there is
\* none; on the instruction catalog the returned code is the only catalog
\* code that starts at the offset.
C4_ConsumeAnyShortest ==
    ret_val.fn = "consume_any" =>
        /\ ret_val.ok <=> (pos < Len(code) /\ MatchLengths # {})
        /\ ret_val.ok =>
              /\ ret_val.val = <<SubSeq(Rest, 1, MinOf(MatchLengths))>>
              /\ ret_val.pos = pos + MinOf(MatchLengths)
              /\ choices = InstructionValues =>
                    \A v \in InstructionValues :
                        IsPrefixOfRest(v) <=> v = ret_val.val[1]

\* the doctest: of the choices "s" and "st" that both start the text, "s" is returned
C4_Witness ==
    /\ ret_val.fn = "consume_any"
    /\ choices = ChoicePool
    /\ IsPrefixOfRest(<<"s", "t">>)
    /\ ret_val.ok
    /\ ret_val.val = << <<"s">> >>
    /\ ret_val.pos = pos + 1

RECURSIVE Pow2(_)
Pow2(k) == IF k = 0 THEN 1 ELSE 2 * Pow2(k - 1)

\* the sum of 2^(k-i) over the positions i of a "t" in the k bits
RECURSIVE Magnitude(_, _)
Magnitude(bits, i) ==
    IF i > Len(bits) THEN 0
    ELSE (IF bits[i] = "t" THEN Pow2(Len(bits) - i) ELSE 0) + Magnitude(bits, i + 1)

\* C5: a sign symbol, k >= 0 bit symbols and a linefeed at the offset decode
\* to sign * (the bits read most significant first) and the position after
\* the linefeed; the text of N >= 0 decodes to N, that of -N to -N, and a
\* sign followed at once by the linefeed to 0.
C5_NumberDecode ==
    (ret_val.fn = "consume_number" /\ Linefeeds # {} /\ Rest[1] # "n") =>
        /\ ret_val.ok
        /\ ret_val.pos = pos + MinOf(Linefeeds)
        /\ ret_val.val = <<(IF Rest[1] = "t" THEN -1 ELSE 1) * Magnitude(Tail(Run), 1)>>
        /\ Len(Run) = 1 => ret_val.val = <<0>>
        /\ \A n \in (-MaxNum)..MaxNum :
              Rest = NumberText(n) => ret_val.val = <<n>> /\ ret_val.pos = Len(code)

\* the text of -5, "tttstn", decoded at offset 2 after the code of push
C5_Witness ==
    /\ ret_val.fn = "consume_number"
    /\ pos = 2
    /\ Rest = NumberText(-5)
    /\ ret_val.val = <<-5>>
    /\ ret_val.pos = Len(code)

NoLinefeedFromOffset == \A i \in (pos + 1)..Len(code) : code[i] # "n"

\* C6: consume_number fails whenever there is no linefeed at or after the offset.
C6_NumberFailsWithoutTerminal ==
    (ret_val.fn = "consume_number" /\ NoLinefeedFromOffset) => ~ret_val.ok

\* C7: consume_label fails whenever there is no linefeed at or after the offset.
C7_LabelFailsWithoutTerminal ==
    (ret_val.fn = "consume_label" /\ NoLinefeedFromOffset) => ~ret_val.ok

\* the offsets of the text that have a linefeed at or after them
TerminatedOffsets == {q \in 0..(Len(code) - 1) : \E i \in (q + 1)..Len(code) : code[i] = "n"}
\* the symbols from offset q up to the first linefeed at or after it
RunAt(q) ==
    SubSeq(code, q + 1, MinOf({i \in (q + 1)..Len(code) : code[i] = "n"}) - 1)

\* C8: with a linefeed at or after the offset, consume_label returns the
\* symbols from the offset up to but not including the first linefeed
\* (possibly none) and the position just after that linefeed; the labels
\* decoded at two offsets are equal exactly when those runs are identical.
C8_LabelDecode ==
    (ret_val.fn = "consume_label" /\ Linefeeds # {}) =>
        /\ ret_val.ok
        /\ ret_val.val = <<Run>>
        /\ ret_val.pos = pos + MinOf(Linefeeds)
        /\ \A q \in TerminatedOffsets :
              (consume_label(code, q).val = ret_val.val) <=> (RunAt(q) = Run)

\* a label of two symbols, distinct from the label decoded one symbol later
C8_Witness ==
    /\ ret_val.fn = "consume_label"
    /\ Linefeeds # {}
    /\ ret_val.val = << <<"t", "s">> >>
    /\ consume_label(code, pos + 1).val = << <<"s">> >>

----------------------------------------------------------------------------
(* Properties of execute, under Spec *)

\* a command has been fetched by this step of run
Fetching == phase = "run" /\ pc < Len(commands)

CondTaken ==
    /\ stack # <<>>
    /\ \/ cmd.ins = "jz" /\ top = 0
       \/ cmd.ins = "jlz" /\ top < 0

C1_Step ==
    Fetching =>
        /\ cmd.ins \notin {"call", "ret", "jump", "jz", "jlz", "exit"} => pc' = pc + 1
        /\ (cmd.ins \in {"jz", "jlz"} /\ stack # <<>> /\ ~CondTaken) =>
              pc' = pc + 1 /\ phase' = "run"
        /\ ((cmd.ins = "jump" \/ CondTaken) /\ cmd.label[1] \in DOMAIN labels) =>
              pc' = labels[cmd.label[1]] /\ phase' = "run"

\* C1: a step of run fetches the command at the program counter and advances
\* the program counter by one before the effect: after an instruction other
\* than call, ret, jump, a taken jz/jlz or exit the program counter is its
\* old value plus one; after jump or a taken jz/jlz it is the label table's
\* index of the command's label.
C1_PcAfterStep == [][C1_Step]_vars

CountdownListing ==
    <<CmdN("push", 2), CmdL("mark", L1), CmdN("push", 1), Cmd("sub"), Cmd("dup"),
      CmdL("jz", L2), CmdL("jump", L1), CmdL("mark", L2), Cmd("out_n"), Cmd("exit")>>

\* the countdown has jumped back to a label defined before the jump and then
\* forward to one defined after the jz
C1_Witness ==
    /\ listing = Some(CountdownListing)
    /\ phase = "done"
    /\ output = <<48>>
    /\ steps = 12

Abs(x) == IF x < 0 THEN -x ELSE x

\* q is the quotient b / a rounded towards minus infinity
IsFloorQuotient(q, b, a) ==
    IF a > 0 THEN a * q <= b /\ b < a * (q + 1)
    ELSE a * q >= b /\ b > a * (q + 1)

C2_Step ==
    (/\ Fetching
     /\ cmd.ins \in ArithNames
     /\ Len(stack) >= 2
     /\ cmd.ins \in {"div", "mod"} => top # 0) =>
        LET a == top
            b == second
            r == stack'[Len(stack')]
        IN  /\ phase' = "run"
            /\ Len(stack') = Len(stack) - 1
            /\ SubSeq(stack', 1, Len(stack) - 2) = SubSeq(stack, 1, Len(stack) - 2)
            /\ cmd.ins = "add" => r = b + a
            /\ cmd.ins = "sub" => r = b - a
            /\ cmd.ins = "mul" => r = b * a
            /\ cmd.ins = "div" => IsFloorQuotient(r, b, a)
            /\ cmd.ins = "mod" =>
                  /\ \E q \in (-(Abs(b) + 1))..(Abs(b) + 1) :
                        IsFloorQuotient(q, b, a) /\ r = b - a * q
                  /\ r # 0 => ((r > 0) <=> (a > 0))
            /\ cmd.ins \in {"div", "mod"} =>
                  arith_result("div", b, a) * a + arith_result("mod", b, a) = b

\* C2: an arithmetic instruction with a = top, b = second and a # 0 for
\* div/mod removes both and pushes one result: b+a, b-a, b*a, floor(b/a),
\* b - a*floor(b/a); (b div a)*a + (b mod a) = b and a non-zero mod result
\* has the sign of a.
C2_Arithmetic == [][C2_Step]_vars

\* -3 div 2 printed as "-2"
C2_Witness ==
    /\ listing = Some(<<CmdN("push", -3), CmdN("push", 2), Cmd("div"), Cmd("out_n"),
                        Cmd("exit")>>)
    /\ phase = "done"
    /\ output = <<45, 50>>

\* parse has returned the Program
ParseReturned == phase \in {"run", "done"} \/ steps > 0

DecodedCmds == [i \in 1..Len(decoded) |-> decoded[i].cmd]
Marks == {i \in 1..Len(decoded) : IsMark(decoded[i].cmd)}
NonMarksBefore(i) == Cardinality({j \in 1..(i - 1) : ~IsMark(decoded[j].cmd)})

\* the decoded commands tile the text in order, each starting with its code
DecodedInSourceOrder ==
    /\ decoded # <<>> => decoded[1].from = 0 /\ decoded[Len(decoded)].to = Len(code)
    /\ decoded = <<>> => code = <<>>
    /\ \A i \in 1..Len(decoded) :
          /\ decoded[i].from < decoded[i].to
          /\ i < Len(decoded) => decoded[i + 1].from = decoded[i].to
          /\ IsPrefixOfRestAt(Instruction(decoded[i].cmd.ins).value, decoded[i].from)

\* C3: after parse the command sequence is the decoded non-mark commands in
\* source order and each label maps to the number of non-mark commands
\* decoded before its definition.
C3_ParseResult ==
    ParseReturned =>
        /\ DecodedInSourceOrder
        /\ listing # None => DecodedCmds = listing[1]
        /\ commands = SelectSeq(DecodedCmds, LAMBDA c : ~IsMark(c))
        /\ DOMAIN labels = {decoded[i].cmd.label[1] : i \in Marks}
        /\ \A i \in Marks : labels[decoded[i].cmd.label[1]] = NonMarksBefore(i)

NestedCallsListing ==
    <<CmdL("call", L1), Cmd("out_n"), Cmd("exit"), CmdL("mark", L1), CmdL("call", L2),
      Cmd("ret"), CmdL("mark", L2), CmdN("push", 3), Cmd("ret")>>

\* labels defined between commands: two marks among nine decoded commands
C3_Witness ==
    /\ listing = Some(NestedCallsListing)
    /\ phase = "run"
    /\ steps = 0
    /\ Len(commands) = 7
    /\ labels[L1] = 3
    /\ labels[L2] = 5

\* the same label is defined twice among the commands d
DefinedTwice(d) ==
    \E i, j \in DOMAIN d :
        i < j /\ IsMark(d[i]) /\ IsMark(d[j]) /\ d[i].label = d[j].label

FirstDefinition(l) == MinOf({i \in Marks : decoded[i].cmd.label[1] = l})

\* C9: a program that defines a label twice fails in parse with the
\* duplicate-label error, with no instruction executed, nothing written and
\* nothing read; a label of the table keeps the index of its first definition.
C9_DuplicateLabel ==
    /\ (listing # None /\ DefinedTwice(listing[1])) =>
          /\ phase \in {"parse", "fault"}
          /\ phase = "fault" => err = "tried to redefine label"
    /\ DefinedTwice(DecodedCmds) =>
          /\ phase = "fault"
          /\ err = "tried to redefine label"
    /\ (phase = "fault" /\ err = "tried to redefine label") =>
          /\ steps = 0
          /\ output = <<>>
          /\ inp \in InputStreams
          /\ pc = 0
          /\ stack = <<>>
          /\ heap = EmptyDict
          /\ call_stack = <<>>
    /\ \A l \in DOMAIN labels : labels[l] = NonMarksBefore(FirstDefinition(l))

DuplicateListing ==
    <<CmdN("push", 2), Cmd("out_n"), CmdL("mark", L1), Cmd("in_c"), CmdL("mark", L1),
      Cmd("exit")>>

\* the second definition of a label, after commands that would write and read
C9_Witness ==
    /\ listing = Some(DuplicateListing)
    /\ phase = "fault"
    /\ err = "tried to redefine label"
    /\ Len(decoded) = 5
    /\ labels[L1] = 2

NoLabelError == "tried to jump to nonexistent label"

IsTransfer == cmd.ins \in {"call", "jump", "jz", "jlz"}

C10_Step ==
    \* the program builds
    /\ (phase = "parse" /\ listing # None /\ ~DefinedTwice(listing[1])) => phase' # "fault"
    \* the fault is raised by a transfer that is executed, and only then
    /\ (err' = NoLabelError /\ err = "") =>
          /\ Fetching
          /\ IsTransfer
          /\ cmd.label[1] \notin DOMAIN labels
          /\ cmd.ins \in {"jz", "jlz"} => CondTaken
          /\ phase' = "fault"
          /\ output' = output
          /\ heap' = heap
          /\ inp' = inp
    /\ (Fetching /\ IsTransfer /\ cmd.label[1] \notin DOMAIN labels) =>
          /\ (cmd.ins \in {"call", "jump"} \/ CondTaken) =>
                phase' = "fault" /\ err' = NoLabelError
          /\ (cmd.ins \in {"jz", "jlz"} /\ stack # <<>> /\ ~CondTaken) =>
                phase' = "run" /\ pc' = pc + 1 /\ err' = ""

\* C10: a program with a jump, call or conditional jump to a label that is
\* never defined builds, runs the instructions before the transfer with
\* their effects, and faults with the undefined-label error only when the
\* jump or call, or a conditional jump whose condition holds, is executed.
C10_UndefinedLabel == [][C10_Step]_vars

\* "1" has been written before the jz on 0 to the undefined label faults
C10_Witness ==
    /\ phase = "fault"
    /\ err = NoLabelError
    /\ output = <<49>>
    /\ steps = 4
    /\ commands[pc].ins = "jz"
    /\ L1 \in DOMAIN labels
    /\ commands[pc].label[1] \notin DOMAIN labels

----------------------------------------------------------------------------
(* Properties of the iterations of run, in terms of the state before the  *)
(* last iteration                                                          *)

\* the last iteration fetched a command, LastCmd
Fetched1 == steps > 0 /\ prev.pc < Len(commands)
LastCmd == commands[prev.pc + 1]
Ran(name) == Fetched1 /\ LastCmd.ins = name

PrevDepth == Len(prev.stack)
PrevTop == prev.stack[PrevDepth]
PrevSecond == prev.stack[PrevDepth - 1]
PrevPopped(k) == SubSeq(prev.stack, 1, PrevDepth - k)

\* the number of iterations so far that fetched a command of instruction name
Executed(name) ==
    Cardinality({i \in 1..Len(trace) :
                    trace[i] < Len(commands) /\ commands[trace[i] + 1].ins = name})

\* C11: call pushes the index of the command after the call on the call
\* stack and continues at the label's index; ret pops the index pushed last
\* and continues there; the depth of the call stack is the number of calls
\* executed minus the number of rets executed.
C11_CallRet ==
    /\ (Ran("call") /\ LastCmd.label[1] \in DOMAIN labels) =>
          /\ phase = "run"
          /\ call_stack = Append(prev.call_stack, prev.pc + 1)
          /\ pc = labels[LastCmd.label[1]]
    /\ (Ran("ret") /\ prev.call_stack # <<>>) =>
          /\ phase = "run"
          /\ pc = prev.call_stack[Len(prev.call_stack)]
          /\ call_stack = SubSeq(prev.call_stack, 1, Len(prev.call_stack) - 1)
    /\ phase \in {"run", "done"} =>
          Len(call_stack) = Executed("call") - Executed("ret")

ThreeDeepListing ==
    <<CmdL("call", L1), Cmd("exit"), CmdL("mark", L1), CmdL("call", L2), Cmd("ret"),
      CmdL("mark", L2), CmdL("call", L3), Cmd("ret"), CmdL("mark", L3), Cmd("ret")>>

\* three calls are open: the call stack holds their return indices 1, 3, 5
C11_Witness ==
    /\ listing = Some(ThreeDeepListing)
    /\ phase = "run"
    /\ call_stack = <<1, 3>>
    /\ Ran("ret")
    /\ prev.call_stack = <<1, 3, 5>>
    /\ pc = 5

\* C12: ret with an empty call stack ends the run in a fault, and no
\* iteration of run follows a fault.
C12_RetWithoutCall ==
    /\ (Ran("ret") /\ prev.call_stack = <<>>) =>
          /\ phase = "fault"
          /\ err = "IndexError: pop from empty list"
          /\ call_stack = <<>>
    /\ steps > 0 => prev.phase = "run"

\* the second ret of: call, ret at the label, ret after the call
C12_Witness ==
    /\ listing = Some(<<CmdL("call", L1), Cmd("ret"), CmdL("mark", L1), Cmd("ret")>>)
    /\ phase = "fault"
    /\ steps = 3
    /\ Ran("ret")
    /\ prev.call_stack = <<>>

PrevCondTaken ==
    \/ LastCmd.ins = "jz" /\ PrevTop = 0
    \/ LastCmd.ins = "jlz" /\ PrevTop < 0

\* C13: jz and jlz remove exactly the top of the operand stack whether or not
\* they jump; jz continues at the label iff the removed value is 0, jlz iff
\* it is less than 0, and else at the next command.
C13_ConditionalJump ==
    ((Ran("jz") \/ Ran("jlz")) /\ prev.stack # <<>>) =>
        /\ stack = PrevPopped(1)
        /\ (PrevCondTaken /\ LastCmd.label[1] \in DOMAIN labels) =>
              phase = "run" /\ pc = labels[LastCmd.label[1]]
        /\ ~PrevCondTaken => phase = "run" /\ pc = prev.pc + 1
        /\ (phase = "run" /\ pc # prev.pc + 1) => PrevCondTaken

CondListing(v, j, l) ==
    <<CmdN("push", 1), Cmd("out_n"), CmdN("push", v), CmdL(j, l), CmdN("push", 2),
      Cmd("out_n"), CmdL("mark", L1), CmdN("push", 3), Cmd("out_n"), Cmd("exit")>>

\* jlz on 0 does not jump: "1", "2" and "3" are written
C13_Witness ==
    /\ listing = Some(CondListing(0, "jlz", L1))
    /\ phase = "done"
    /\ output = <<49, 50, 51>>

HeapWriters == {"store", "in_c", "in_n"}

\* the heap hp with address a set to v
HeapWith(hp, a, v) ==
    [k \in DOMAIN hp \cup {a} |-> IF k = a THEN v ELSE hp[k]]

\* C14: store with value v on top and address a beneath removes both and sets
\* heap[a] = v, leaving the other addresses; get with a written address a on
\* top replaces it by heap[a]; only store, in_c and in_n change the heap, so
\* get reads the value stored last: push 5, push 42, store, push 5, get, out_n
\* writes "42", also for a negative address.
C14_StoreGet ==
    /\ (Ran("store") /\ PrevDepth >= 2) =>
          /\ phase = "run"
          /\ stack = PrevPopped(2)
          /\ heap = HeapWith(prev.heap, PrevSecond, PrevTop)
    /\ (Ran("get") /\ PrevDepth >= 1 /\ PrevTop \in DOMAIN prev.heap) =>
          /\ phase = "run"
          /\ stack = Append(PrevPopped(1), prev.heap[PrevTop])
    /\ (Fetched1 /\ LastCmd.ins \notin HeapWriters) => heap = prev.heap
    /\ (phase = "done" /\ listing \in {Some(HeapScenario), Some(HeapTwiceScenario)}) =>
          output = <<52, 50>>
    /\ (phase = "done" /\ listing = Some(HeapNegativeScenario)) => output = <<55>>

\* the second store to address 5 has replaced the 1 by 42, and get has read it
C14_Witness ==
    /\ listing = Some(HeapTwiceScenario)
    /\ phase = "done"
    /\ output = <<52, 50>>
    /\ heap = HeapWith(EmptyDict, 5, 42)

\* C15: get with an address that nothing has written in this run ends the
\* run in the bad-heap-address fault and pushes nothing; the heap is empty
\* when run starts.
C15_GetUnwritten ==
    /\ steps = 0 => heap = EmptyDict
    /\ (Ran("get") /\ PrevDepth >= 1 /\ PrevTop \notin DOMAIN prev.heap) =>
          /\ phase = "fault"
          /\ err = "bad heap address"
          /\ stack = PrevPopped(1)
          /\ heap = prev.heap

\* 42 is stored at address 5 and get asks for address 6
C15_Witness ==
    /\ listing = Some(HeapUnwrittenScenario)
    /\ phase = "fault"
    /\ err = "bad heap address"
    /\ steps = 5
    /\ output = <<>>

\* C16: div or mod with 0 on top of the stack ends the run in a fault;
\* nothing is pushed and no later instruction is executed.
C16_DivisionByZero ==
    ((Ran("div") \/ Ran("mod")) /\ PrevDepth >= 2 /\ PrevTop = 0) =>
        /\ phase = "fault"
        /\ err = "ZeroDivisionError"
        /\ stack = PrevPopped(2)
        /\ output = prev.output
        /\ pc = prev.pc + 1

\* push 3, push 0, mod: the out_n that follows is not executed
C16_Witness ==
    /\ listing = Some(<<CmdN("push", 3), CmdN("push", 0), Cmd("mod"), Cmd("out_n"),
                        Cmd("exit")>>)
    /\ phase = "fault"
    /\ err = "ZeroDivisionError"
    /\ steps = 3
    /\ output = <<>>

TwoOperands == {"swap", "add", "sub", "mul", "div", "mod", "store"}
OneOperand == {"dup", "discard", "get", "out_c", "out_n", "jz", "jlz", "in_c", "in_n"}

\* the number of stack elements the instruction needs
Needs(name) == IF name \in TwoOperands THEN 2 ELSE 1

IsPrefix(s, t) == Len(s) <= Len(t) /\ s = SubSeq(t, 1, Len(s))

\* C17: an instruction that consumes operands, executed on a stack with fewer
\* elements than it needs, ends the run in a fault, and its effect does not
\* happen: nothing is pushed, written to the heap or to the output, and no
\* jump is made.
C17_StackUnderflow ==
    (Fetched1 /\ LastCmd.ins \in TwoOperands \cup OneOperand
              /\ PrevDepth < Needs(LastCmd.ins)) =>
        /\ phase = "fault"
        /\ IsPrefix(stack, prev.stack)
        /\ heap = prev.heap
        /\ output = prev.output
        /\ call_stack = prev.call_stack
        /\ pc = prev.pc + 1

\* add on a stack holding one element
C17_Witness ==
    /\ listing = Some(<<CmdN("push", 2), Cmd("add")>>)
    /\ phase = "fault"
    /\ steps = 2
    /\ prev.stack = <<2>>
    /\ stack = <<>>

\* C18: dup_n with operand N on a stack of depth d continues exactly when
\* 0 <= N < d, and then pushes a copy of the element N below the top on the
\* unchanged stack; otherwise the run faults and the stack stays as it was.
C18_DupN ==
    Ran("dup_n") =>
        LET N == LastCmd.number[1]
            d == PrevDepth
        IN  /\ (0 <= N /\ N < d) <=> (phase = "run")
            /\ phase = "run" => stack = Append(prev.stack, prev.stack[d - N])
            /\ phase # "run" => phase = "fault" /\ stack = prev.stack

\* dup_n 2 on the stack 4 5 6 copies the 4
C18_Witness ==
    /\ Ran("dup_n")
    /\ LastCmd.number = Some(2)
    /\ PrevDepth = 3
    /\ phase = "run"
    /\ stack = Append(prev.stack, prev.stack[1])
    /\ prev.stack[1] # prev.stack[3]

\* the number of elements discard_n N removes from a stack of depth d
Removed(N, d) ==
    IF d = 0 THEN 0
    ELSE IF N > 0 THEN MinOf({N, d - 1})
    ELSE d - 1

\* C19: discard_n with operand N on a stack of depth d never faults and
\* keeps the top: it removes the min(N, d-1) elements below the top for
\* N > 0, all but the top for N <= 0, and nothing from an empty stack.
C19_DiscardN ==
    Ran("discard_n") =>
        LET N == LastCmd.number[1]
            d == PrevDepth
            k == Removed(N, d)
        IN  /\ phase = "run"
            /\ stack = SubSeq(prev.stack, 1, d - 1 - k)
                       \o (IF d = 0 THEN <<>> ELSE <<PrevTop>>)

\* discard_n 1 on a stack of three distinct elements removes the middle one
C19_Witness ==
    /\ Ran("discard_n")
    /\ LastCmd.number = Some(1)
    /\ PrevDepth = 3
    /\ stack = <<prev.stack[1], prev.stack[3]>>
    /\ prev.stack[1] # prev.stack[2]
    /\ prev.stack[2] # prev.stack[3]

-----------------------------------------------------------------------------
(* clean: raw text, a sequence of character codes, to symbols *)

\* zip(a, b): an iterator of the pairs of a and b, not a dict
zip(a, b) ==
    [type |-> "zip", items |-> [i \in 1..MinOf({Len(a), Len(b)}) |-> <<a[i], b[i]>>]]

\* str.maketrans(x) with one argument: the table of a dict, TypeError for
\* anything else
maketrans(x) ==
    IF x.type # "dict"
    THEN Fail("TypeError: if you give only one argument to maketrans it must be a dict")
    ELSE Ok([c \in {x.items[i][1] : i \in DOMAIN x.items} |->
                (CHOOSE v \in {x.items[i][2] : i \in DOMAIN x.items} :
                    \E i \in DOMAIN x.items : x.items[i] = <<c, v>>)], 0)

\* defaultdict(str, table)[c]: the replacement of c, the empty string if the
\* table has no entry for c
lookup(table, c) == IF c \in DOMAIN table THEN <<table[c]>> ELSE <<>>

\* str.translate: the replacements of the characters, concatenated
RECURSIVE translate(_, _)
translate(program, table) ==
    IF program = <<>> THEN <<>>
    ELSE lookup(table, Head(program)) \o translate(Tail(program), table)

\* the table is built first, then the text is translated
clean(program) ==
    LET table == maketrans(zip(<<32, 9, 10>>, <<"s", "t", "n">>))
    IN  IF ~table.ok THEN table
        ELSE Ok(translate(program, table.val[1]), 0)

\* space, tab, linefeed, carriage return, the letters s, t, n and x
Characters == {32, 9, 10, 13, 115, 116, 110, 120}
RawPrograms == SeqsUpTo(Characters, MaxText)

InitClean ==
    /\ text \in RawPrograms
    /\ code = <<>>
    /\ pos = 0
    /\ phase = "clean"
    /\ choices = {}
    /\ ret_val = NoCall
    /\ listing = None
    /\ inp = DefaultStream
    /\ commands = <<>>
    /\ labels = EmptyDict
    /\ pc = 0
    /\ call_stack = <<>>
    /\ stack = <<>>
    /\ heap = EmptyDict
    /\ output = <<>>
    /\ err = ""
    /\ decoded = <<>>
    /\ steps = 0
    /\ prev = Snapshot
    /\ trace = <<>>
    /\ runs = 0
    /\ args \in {a \in Arguments : a.inp = "str"}

\* code = clean(code); an exception leaves execute
call_clean ==
    /\ phase = "clean"
    /\ ~args.is_cleaned
    /\ LET r == clean(text)
       IN  IF r.ok
           THEN code' = r.val[1] /\ phase' = "cleaned" /\ err' = err
           ELSE code' = code /\ phase' = "fault" /\ err' = r.err
    /\ UNCHANGED <<pos, commands, labels, pc, call_stack, stack, heap, inp, output,
                   decoded, steps, choices, ret_val, listing, prev, trace, text,
                   runs, args>>

NextClean == call_clean

SpecClean == InitClean /\ [][NextClean]_vars

\* the 1-based indices of the text holding a space, a tab or a linefeed
WhitespaceAt == {i \in 1..Len(text) : text[i] \in {32, 9, 10}}
\* the k-th of them, in text order
NthWhitespace(k) ==
    CHOOSE i \in WhitespaceAt : Cardinality({j \in WhitespaceAt : j <= i}) = k
SymbolOf(c) == CASE c = 32 -> "s" [] c = 9 -> "t" [] c = 10 -> "n"

\* C20: clean returns the symbols of the spaces, tabs and linefeeds of the
\* text in their order: its length is the number of those characters, its
\* k-th symbol stands for the k-th of them, every other character is dropped,
\* and the empty text gives the empty result; it does not fail.
C20_Clean ==
    phase # "clean" =>
        /\ phase = "cleaned"
        /\ err = ""
        /\ Len(code) = Cardinality(WhitespaceAt)
        /\ \A k \in 1..Len(code) : code[k] = SymbolOf(text[NthWhitespace(k)])
        /\ text = <<>> => code = <<>>

-----------------------------------------------------------------------------
(* execute: the two ways the program text is normalized *)

\* {c: c for c in 'stn'}
dict_stn == [type |-> "dict", items |-> <<<<115, "s">>, <<116, "t">>, <<110, "n">>>>]

\* code.translate(defaultdict(str, str.maketrans({c: c for c in 'stn'})))
keep_stn(program) ==
    LET table == maketrans(dict_stn)
    IN  IF ~table.ok THEN table
        ELSE Ok(translate(program, table.val[1]), 0)

\* execute with is_cleaned: the text is filtered, not cleaned
call_keep_stn ==
    /\ phase = "clean"
    /\ args.is_cleaned
    /\ LET r == keep_stn(text)
       IN  IF r.ok
           THEN code' = r.val[1] /\ phase' = "kept" /\ err' = err
           ELSE code' = code /\ phase' = "fault" /\ err' = r.err
    /\ UNCHANGED <<pos, commands, labels, pc, call_stack, stack, heap, inp, output,
                   decoded, steps, choices, ret_val, listing, prev, trace, text,
                   runs, args>>

NextNormalize ==
    \/ call_clean
    \/ call_keep_stn

SpecNormalize == InitClean /\ [][NextNormalize]_vars

\* the text consists of the letters s, t, n only
IsNormalized == \A i \in 1..Len(text) : text[i] \in {115, 116, 110}
LetterOf(c) == CASE c = 115 -> "s" [] c = 116 -> "t" [] c = 110 -> "n"
SameSequence == code = [i \in 1..Len(text) |-> LetterOf(text[i])]

\* C21: normalizing a text that consists only of the three symbols returns
\* that same sequence, by clean as well as by the filter of execute.
C21_NormalizeIdentity ==
    (IsNormalized /\ phase # "clean") =>
        /\ phase \in {"cleaned", "kept"}
        /\ SameSequence

\* the filter of execute alone does return the same sequence
C21_KeepIsIdentity ==
    (IsNormalized /\ phase = "kept") => SameSequence

\* the code of the instruction called name, with its IMP code in front
FullCode(name) == IMP[Instruction(name).imp] \o Instruction(name).code
IsProperPrefix(v, w) == Len(v) < Len(w) /\ SubSeq(w, 1, Len(v)) = v
\* the catalog codes that start at the offset
CodesAtOffset == {v \in InstructionValues : IsPrefixOfRest(v)}

\* the catalog by itself: 24 members, their full codes distinct and prefix-free
CatalogPrefixFree ==
    /\ Len(InstructionMembers) = 24
    /\ Cardinality(InstructionNames) = 24
    /\ \A m, n \in InstructionNames :
          m # n => /\ FullCode(m) # FullCode(n)
                   /\ ~IsProperPrefix(FullCode(m), FullCode(n))
    /\ InstructionValues = {FullCode(n) : n \in InstructionNames}

\* C22: the catalog has 24 instructions, their full codes are pairwise
\* distinct and none is a proper prefix of another, so at most one catalog
\* code starts at any position of a text.
C22_CatalogPrefixFree ==
    /\ CatalogPrefixFree
    /\ Cardinality(CodesAtOffset) <= 1

\* consume_any on the catalog has returned the one code that starts at the offset
C22_Witness ==
    /\ ret_val.fn = "consume_any"
    /\ choices = InstructionValues
    /\ ret_val.ok
    /\ CodesAtOffset = {ret_val.val[1]}
    /\ pos > 0

-----------------------------------------------------------------------------
(* run called again on the Program that parse returned *)

\* run(program, inp, output) after an earlier run of the Program has ended,
\* with the same streams: the locals stack and heap are new, the program
\* counter and the call stack of the Program are what the earlier run left
run_again ==
    /\ phase \in {"done", "fault"}
    /\ runs >= 1
    /\ runs < MaxRuns
    /\ phase' = "run"
    /\ err' = ""
    /\ stack' = <<>>
    /\ heap' = EmptyDict
    /\ steps' = 0
    /\ trace' = <<>>
    /\ prev' = [phase |-> "run", pc |-> pc, call_stack |-> call_stack, stack |-> <<>>,
                heap |-> EmptyDict, inp |-> inp, output |-> output]
    /\ runs' = runs + 1
    /\ ret_val' = NoCall
    /\ UNCHANGED <<code, pos, commands, labels, pc, call_stack, inp, output, decoded,
                   choices, listing, text, args>>

NextRerun ==
    \/ Next
    \/ run_again

SpecRerun == Init /\ [][NextRerun]_vars

\* C23: every run starts at program counter 0 with an empty operand stack,
\* an empty heap and an empty call stack, also a second run of the same
\* Program after an earlier run of it ended by exit or by a fault.
C23_FreshPerRun ==
    (phase = "run" /\ steps = 0) =>
        /\ pc = 0
        /\ stack = <<>>
        /\ heap = EmptyDict
        /\ call_stack = <<>>

\* C26: when a run ends in a fault, the output written before the fault is
\* what the caller of execute receives.
C26_OutputSurvivesFault ==
    (phase = "fault" /\ ret_val.fn = "execute" /\ output # <<>>) =>
        ret_val.val = <<output>>

\* C24: no iteration of run changes the commands or the label table of the
\* Program; they stay what parse returned.
C24_ProgramReadOnly ==
    [][phase = "run" => (commands' = commands /\ labels' = labels)]_vars

\* inside the third nested call, with three labels in the table
C24_Witness ==
    /\ listing = Some(ThreeDeepListing)
    /\ phase = "run"
    /\ Len(call_stack) = 3
    /\ Cardinality(DOMAIN labels) = 3
    /\ Len(commands) = 7

\* the scenario: push 1, push 1, add, out_n, then exit
SumScenario ==
    <<CmdN("push", 1), CmdN("push", 1), Cmd("add"), Cmd("out_n"), Cmd("exit")>>

\* the listing is push b, push a, add, out_n, exit
IsSumListing ==
    /\ listing # None
    /\ Len(listing[1]) = 5
    /\ listing[1][1].ins = "push" /\ listing[1][2].ins = "push"
    /\ listing[1][3].ins = "add" /\ listing[1][4].ins = "out_n"

\* C25: the output only grows, and only by out_c and out_n: out_c pops a
\* value and appends the character with that code, out_n pops a value and
\* appends its decimal text, every other instruction leaves the output as it
\* is, and it is empty when run starts; push 1, push 1, add, out_n writes "2".
C25_OutputAppendOnly ==
    /\ steps = 0 => output = <<>>
    /\ Fetched1 => IsPrefix(prev.output, output)
    /\ (Ran("out_c") /\ PrevDepth >= 1 /\ PrevTop \in 0..1114111) =>
          /\ phase = "run"
          /\ output = Append(prev.output, PrevTop)
          /\ stack = PrevPopped(1)
    /\ (Ran("out_n") /\ PrevDepth >= 1) =>
          /\ phase = "run"
          /\ output = prev.output \o str(PrevTop)
          /\ stack = PrevPopped(1)
    /\ (Fetched1 /\ (LastCmd.ins \notin {"out_c", "out_n"} \/ phase = "fault")) =>
          output = prev.output
    /\ (listing = Some(SumScenario) /\ steps >= 4) => output = <<50>>
    /\ (IsSumListing /\ steps >= 4) =>
          output = str(listing[1][1].number[1] + listing[1][2].number[1])

\* out_n has just written the "2" of 1 + 1
C25_Witness ==
    /\ listing = Some(SumScenario)
    /\ Ran("out_n")
    /\ steps = 4
    /\ prev.stack = <<2>>
    /\ stack = <<>>
    /\ output = <<50>>

\* C27: in_c pops the address first and reads one character after that: on
\* an empty operand stack it faults on the pop with no character read; with
\* an address and a character it stores the code of the character at the
\* address and consumes that one character; with the input exhausted it ends
\* the run in the end-of-input fault.
C27_InCPopsThenReads ==
    Ran("in_c") =>
        /\ PrevDepth = 0 =>
              /\ phase = "fault"
              /\ err = "IndexError: pop from empty list"
              /\ inp = prev.inp
        /\ (PrevDepth >= 1 /\ prev.inp # <<>>) =>
              /\ phase = "run"
              /\ stack = PrevPopped(1)
              /\ heap = HeapWith(prev.heap, PrevTop, Head(prev.inp))
              /\ inp = Tail(prev.inp)
        /\ (PrevDepth >= 1 /\ prev.inp = <<>>) =>
              /\ phase = "fault"
              /\ err = "unexpected EOF on input"

\* what in_c does do when it has an address: one character read and stored
C27_InCWithAddress ==
    (Ran("in_c") /\ PrevDepth >= 1) =>
        /\ prev.inp # <<>> =>
              /\ phase = "run"
              /\ stack = PrevPopped(1)
              /\ heap = HeapWith(prev.heap, PrevTop, Head(prev.inp))
              /\ inp = Tail(prev.inp)
        /\ prev.inp = <<>> => phase = "fault" /\ err = "unexpected EOF on input"

ExitOnly == <<Cmd("exit")>>

\* C29: the program that is only exit ends successfully after one step with
\* empty output, and exit in any program ends the run successfully, changing
\* nothing else, with no command executed after it.
C29_Exit ==
    /\ Ran("exit") =>
          /\ phase = "done"
          /\ stack = prev.stack /\ heap = prev.heap
          /\ inp = prev.inp /\ output = prev.output
    /\ phase = "done" =>
          /\ Ran("exit")
          /\ Executed("exit") = 1
          /\ ret_val = Called("execute", Ok(output, 0))
    /\ (listing = Some(ExitOnly) /\ phase \notin {"parse", "run"}) =>
          /\ phase = "done"
          /\ steps = 1
          /\ output = <<>>

\* the only command is exit and the run has ended
C29_Witness ==
    /\ listing = Some(ExitOnly)
    /\ phase = "done"
    /\ steps = 1
    /\ output = <<>>

\* exit with an output instruction behind it: nothing is written
C29_WitnessFollowed ==
    /\ listing = Some(<<Cmd("exit"), Cmd("out_n")>>)
    /\ phase = "done"
    /\ steps = 1

\* C30: from the empty operand stack, push x, dup, sub leaves exactly the
\* one element 0, for every literal x.
C30_PushDupSub ==
    (listing # None /\ listing[1] \in DupSubListings) =>
        LET x == listing[1][1].number[1]
        IN  /\ x \in LiteralNumbers
            /\ steps = 1 => stack = <<x>>
            /\ steps = 2 => stack = <<x, x>>
            /\ steps >= 3 => stack = <<0>>
            /\ steps <= 3 => phase \in {"parse", "run"}

\* the three commands have run on the largest negative literal
C30_Witness ==
    /\ listing = Some(DupSubListing(-MaxNum))
    /\ steps = 3
    /\ phase = "run"
    /\ prev.stack = <<-MaxNum, -MaxNum>>
    /\ stack = <<0>>

\* 1-based indices k > from with a linefeed at k and none in from+1..k-1:
\* the linefeed that ends an argument starting after position from
ArgumentEnds(c, from) ==
    {k \in (from + 1)..Len(c) :
        c[k] = "n" /\ \A j \in (from + 1)..(k - 1) : c[j] # "n"}

\* the text c from position q on is a sequence of complete commands: an
\* instruction code, then for an instruction with a number a sign, bits and
\* a linefeed, for one with a label symbols and a linefeed
RECURSIVE WellFormedFrom(_, _)
WellFormedFrom(c, q) ==
    \/ q = Len(c)
    \/ \E n \in InstructionNames :
          LET v == Instruction(n).value
              r == q + Len(v)
          IN  /\ r <= Len(c)
              /\ SubSeq(c, q + 1, r) = v
              /\ IF Instruction(n).takes_number
                 THEN \E k \in ArgumentEnds(c, r) : k >= r + 2 /\ WellFormedFrom(c, k)
                 ELSE IF Instruction(n).takes_label
                 THEN \E k \in ArgumentEnds(c, r) : WellFormedFrom(c, k)
                 ELSE WellFormedFrom(c, r)

Malformed == ~WellFormedFrom(code, 0)

\* no instruction executed, nothing written, nothing read
NothingExecuted == steps = 0 /\ trace = <<>> /\ output = <<>> /\ inp = prev.inp

\* parse goes through the text once: every command it has taken ends after
\* its start, and the next one starts where it ends
DecodedForward ==
    \A i \in 1..Len(decoded) :
        /\ decoded[i].from < decoded[i].to
        /\ i < Len(decoded) => decoded[i + 1].from = decoded[i].to

\* C28: execute decodes the whole program before the first instruction is
\* executed: a program with a malformed or truncated instruction, number or
\* label anywhere in it is rejected, with no instruction executed, no output
\* written and no input consumed; parse takes no command from the malformed
\* part and does not carry on elsewhere in the text.
C28_DecodeBeforeExecute ==
    /\ steps > 0 => pos >= Len(code)
    /\ Malformed =>
          /\ phase \in {"parse", "fault"}
          /\ NothingExecuted
          /\ DecodedForward

\* what does hold: a malformed program never reaches run, and whatever
\* parse raises, nothing has been executed, written or read
C28_NoEffectBeforeDecoded ==
    /\ steps > 0 => pos >= Len(code)
    /\ Malformed => (phase \in {"parse", "fault"} /\ NothingExecuted)
    /\ (phase = "fault" /\ runs = 0) => NothingExecuted

\* a label and an unconditional jump back to it
LoopListing == <<CmdL("mark", L0), CmdL("jump", L0)>>
\* the same with work in the loop: the stack and the output grow
GrowingLoopListing ==
    <<CmdN("push", 1), CmdL("mark", L0), Cmd("dup"), Cmd("out_n"), CmdL("jump", L0)>>

\* C31: a program that defines a label and jumps back to it without
\* condition, with no exit, never ends: after any number of steps the run
\* has neither returned nor faulted, and after every jump the machine is in
\* the state in which the run started, so that it repeats without end.
C31_LoopNeverEnds ==
    /\ (listing # None /\ listing[1] \in {LoopListing, GrowingLoopListing}) =>
          phase \in {"parse", "run"}
    /\ (listing = Some(LoopListing) /\ phase = "run") =>
          /\ pc = 0
          /\ stack = <<>> /\ heap = EmptyDict /\ call_stack = <<>>
          /\ output = <<>> /\ inp = prev.inp
          /\ commands[pc + 1].ins = "jump"
          /\ labels[commands[pc + 1].label[1]] = pc

\* the loop has been followed as far as the model follows a run
C31_Witness ==
    /\ listing = Some(LoopListing)
    /\ phase = "run"
    /\ steps = MaxSteps
    /\ Executed("jump") = MaxSteps

\* the lengths of the prefixes of the text at the offset that consume_any tries
TriedLengths == 0..MaxOf({Len(x) : x \in choices})

\* C33: consume_any fails when no prefix of the text at the offset, up to
\* the length of the longest choice, is one of the choices, and fails with a
\* different error when the offset is at or past the end of the text.
C33_ConsumeAnyErrors ==
    ret_val.fn = "consume_any" =>
        /\ pos >= Len(code) =>
              /\ ~ret_val.ok
              /\ ret_val.err = "tried to consume from empty string"
        /\ (pos < Len(code) /\ \A k \in TriedLengths : SubSeq(Rest, 1, MinOf({k, Len(Rest)})) \notin choices) =>
              /\ ~ret_val.ok
              /\ ret_val.err = "no match found"
        /\ ~ret_val.ok => (pos >= Len(code) <=> ret_val.err # "no match found")

\* both failures on the catalog: at the end of the text, and on a text that
\* starts no catalog code
C33_Witness ==
    /\ ret_val.fn = "consume_any"
    /\ choices = InstructionValues
    /\ pos = Len(code)
    /\ code # <<>>
    /\ ret_val.err = "tried to consume from empty string"

C33_WitnessNoMatch ==
    /\ ret_val.fn = "consume_any"
    /\ choices = InstructionValues
    /\ pos < Len(code)
    /\ ret_val.err = "no match found"

\* the loop with work in it has been followed as far as well
C31_WitnessGrowing ==
    /\ listing = Some(GrowingLoopListing)
    /\ phase = "run"
    /\ steps = MaxSteps
    /\ Len(output) > 1

\* C34: the commands of a Program built by parse contain no mark, at any
\* moment of parse and of the run, so the run never raises 'leftover mark'.
C34_NoMarkInCommands ==
    /\ \A i \in 1..Len(commands) : ~IsMark(commands[i])
    /\ err # "leftover mark"

\* a program whose text has marks has been parsed and has run to its end
C34_Witness ==
    /\ Marks # {}
    /\ phase \in {"done", "fault"}
    /\ steps > Len(commands)

\* C35: parse ends on every text, the position growing in every iteration:
\* each command decoded ends after its start and the next one starts where
\* it ends, so no more commands are decoded than the text has symbols.
C35_ParseAdvances ==
    /\ DecodedForward
    /\ Len(decoded) <= Len(code)

\* C36: the program counter lies in 0..len(commands), every value of the
\* label table lies in 0..len(commands) and every program counter saved on
\* the call stack lies in 1..len(commands).
C36_Ranges ==
    /\ pc \in 0..Len(commands)
    /\ \A l \in DOMAIN labels : labels[l] \in 0..Len(commands)
    /\ \A i \in 1..Len(call_stack) : call_stack[i] \in 1..Len(commands)

\* a call that is the last command, to a label after it: the saved program
\* counter, the label and the program counter are all len(commands)
C36_Witness ==
    /\ phase = "run"
    /\ commands # <<>>
    /\ pc = Len(commands)
    /\ call_stack # <<>>
    /\ call_stack[Len(call_stack)] = Len(commands)
    /\ \E l \in DOMAIN labels : labels[l] = Len(commands)

\* the program counter past the last command after a jump
C36_WitnessJump ==
    /\ phase = "run"
    /\ pc = Len(commands)
    /\ steps > 0 /\ LastCmd.ins \in {"jump", "jz", "jlz"}
    /\ pc # prev.pc + 1

\* C37: run returns only by executing exit; when the program counter is
\* the number of commands at the fetch, the run ends with the fault
\* 'unexpected end of program' and the machine as it was.
C37_ReturnOnlyByExit ==
    /\ phase = "done" => (Fetched1 /\ LastCmd.ins = "exit")
    /\ (steps > 0 /\ prev.pc >= Len(commands)) =>
          /\ phase = "fault"
          /\ err = "unexpected end of program"
          /\ ret_val = Called("execute", Fail("unexpected end of program"))
          /\ pc = prev.pc /\ stack = prev.stack /\ heap = prev.heap
          /\ call_stack = prev.call_stack /\ output = prev.output

EndFault == phase = "fault" /\ err = "unexpected end of program"

\* the fault after a jump to a label defined after the last command
C37_Witness ==
    /\ EndFault
    /\ steps > 1
    /\ \E l \in DOMAIN labels : labels[l] = Len(commands) /\ prev.pc = labels[l]
    /\ trace[Len(trace) - 1] + 1 # prev.pc

\* the fault for the empty program
C37_WitnessEmpty == EndFault /\ commands = <<>> /\ steps = 1

\* the fault after the last command, which is no jump
C37_WitnessFallOff ==
    /\ EndFault
    /\ steps > 1
    /\ commands[Len(commands)].ins \in {"push", "out_n", "add"}
    /\ trace[Len(trace) - 1] + 1 = Len(commands)

StackInstructions ==
    {"push", "dup", "dup_n", "swap", "discard", "discard_n", "out_c", "out_n"}
        \cup ArithNames
FlowInstructions == {"jump", "call", "ret"}

\* the heap is what it was before the last command at every address but a
HeapSameExcept(a) ==
    \A k \in (DOMAIN heap \cup DOMAIN prev.heap) \ {a} :
        /\ k \in DOMAIN heap
        /\ k \in DOMAIN prev.heap
        /\ heap[k] = prev.heap[k]

\* C38: the stack, arithmetic and output instructions leave the heap and
\* the call stack as they were; jump, call and ret leave the operand stack
\* and the heap as they were; store, in_c and in_n change the heap at the
\* popped address only, and get changes no entry of the heap.
C38_Frames ==
    Fetched1 =>
        /\ LastCmd.ins \in StackInstructions =>
              heap = prev.heap /\ call_stack = prev.call_stack
        /\ LastCmd.ins \in FlowInstructions =>
              stack = prev.stack /\ heap = prev.heap
        /\ LastCmd.ins = "store" =>
              IF PrevDepth >= 2 THEN HeapSameExcept(PrevSecond)
              ELSE heap = prev.heap
        /\ LastCmd.ins \in {"in_c", "in_n"} =>
              IF PrevDepth >= 1 THEN HeapSameExcept(PrevTop)
              ELSE heap = prev.heap
        /\ LastCmd.ins = "get" => heap = prev.heap

\* a store into a heap that has an entry at another address
C38_Witness ==
    /\ Ran("store")
    /\ phase = "run"
    /\ PrevDepth >= 2
    /\ heap[PrevSecond] = PrevTop
    /\ DOMAIN prev.heap \ {PrevSecond} # {}
    /\ PrevSecond \notin DOMAIN prev.heap

\* a character read into the heap, and a call with operands on the stack
C38_WitnessInC ==
    /\ Ran("in_c")
    /\ phase = "run"
    /\ heap # prev.heap

C38_WitnessCall ==
    /\ Ran("call")
    /\ phase = "run"
    /\ stack # <<>>
    /\ call_stack # prev.call_stack

-----------------------------------------------------------------------------
(* execute, from the call: the arguments, then parse and run *)

\* the program text the caller writes for the symbols c: the letters s, t
\* and n when it says the text is cleaned, else spaces, tabs and linefeeds
Written(c, is_cleaned) ==
    [i \in 1..Len(c) |->
        IF is_cleaned
        THEN (CASE c[i] = "s" -> 115 [] c[i] = "t" -> 116 [] c[i] = "n" -> 110)
        ELSE (CASE c[i] = "s" -> 32 [] c[i] = "t" -> 9 [] c[i] = "n" -> 10)]

\* the call execute(text, inp, is_cleaned), inp left out for "None"
InitExecute ==
    /\ args \in Arguments
    /\ \E src \in ProgramSources :
          /\ listing = src.listing
          /\ text = Written(src.code, args.is_cleaned)
          /\ inp \in IF args.inp = "None" THEN {<<>>} ELSE StreamsFor(src)
    /\ code = <<>>
    /\ pos = 0
    /\ commands = <<>>
    /\ labels = EmptyDict
    /\ pc = 0
    /\ call_stack = <<>>
    /\ stack = <<>>
    /\ heap = EmptyDict
    /\ output = <<>>
    /\ phase = "execute"
    /\ err = ""
    /\ decoded = <<>>
    /\ steps = 0
    /\ choices = {}
    /\ ret_val = NoCall
    /\ prev = Snapshot
    /\ trace = <<>>
    /\ runs = 0

\* execute up to the call of parse: the text is normalized, then the input
\* is made a stream; inp is neither a str nor a TextIOBase when it is None
execute_enter ==
    /\ phase = "execute"
    /\ LET r == IF args.is_cleaned THEN keep_stn(text) ELSE clean(text)
           e == IF ~r.ok THEN r.err
                ELSE IF args.inp = "None"
                THEN "unable to convert input None to TextIO"
                ELSE ""
       IN  /\ code' = IF r.ok THEN r.val[1] ELSE code
           /\ phase' = IF e = "" THEN "parse" ELSE "fault"
           /\ err' = e
           /\ ret_val' = execute_return(phase', e, output)
    /\ UNCHANGED <<pos, commands, labels, pc, call_stack, stack, heap, inp, output,
                   decoded, steps, choices, listing, prev, trace, text, runs, args>>

NextExecute ==
    \/ execute_enter
    \/ Next

SpecExecute == InitExecute /\ [][NextExecute]_vars

\* the listing has no input instruction
InputFree(lst) == \A i \in DOMAIN lst : lst[i].ins \notin {"in_c", "in_n"}

\* C32: execute called without an input runs a program that executes no
\* input instruction and returns its output: it does not fail for the
\* missing input, and for the program that is one exit it returns the
\* empty output.
C32_InputOptional ==
    (args.inp = "None" /\ args.is_cleaned /\ listing # None /\ InputFree(listing[1])) =>
        /\ err # "unable to convert input None to TextIO"
        /\ (listing[1] = ExitOnly /\ phase \notin {"execute", "parse", "run"}) =>
              ret_val = Called("execute", Ok(<<>>, 0))

\* with an input given, the same program returns its output
C32_WithInput ==
    (args.inp # "None" /\ args.is_cleaned /\ listing = Some(ExitOnly)
        /\ phase \notin {"execute", "parse", "run"}) =>
            ret_val = Called("execute", Ok(<<>>, 0))

\* the call that fails without a given input ends with the exception
C32_FaultWithoutInput ==
    /\ args = [inp |-> "None", is_cleaned |-> TRUE]
    /\ listing = Some(ExitOnly)
    /\ phase = "fault"
    /\ code = <<"n", "n", "n">>
    /\ steps = 0 /\ decoded = <<>>

====
